---- MODULE Spec2Model ----
(***************************************************************************)
(* Model of DataProcessor (src/data_processor.py) and                      *)
(* MonetizationStrategyGenerator / MonetizationStrategy                    *)
(* (src/monetization_strategy_generator.py).                               *)
(*                                                                         *)
(* The program is single threaded.  One caller invokes the public methods  *)
(* one at a time; pc is the statement about to run ("<method>:<line>").    *)
(* trace is the log of the call in progress (or of the last finished       *)
(* call): every collaborator invocation, every internal step, every        *)
(* error-severity log record and every return / raise, in program order.   *)
(*                                                                         *)
(* The collaborators DataCleaner, MarketAnalyzer and KnowledgeRepository   *)
(* are imported but not defined in the repository: an invocation of one    *)
(* either returns some value or raises some failure, chosen                *)
(* nondeterministically.  Failures are instances of subclasses of          *)
(* Exception, the ones `except Exception` (lines 48 and 78) handles.       *)
(***************************************************************************)
EXTENDS Integers, Sequences, FiniteSets, TLC

VARIABLES
    data_cleaner,          \* DataProcessor.data_cleaner
    data_processor,        \* MonetizationStrategyGenerator.data_processor
    market_analyzer,       \* MonetizationStrategyGenerator.market_analyzer
    knowledge_repository,  \* MonetizationStrategyGenerator.knowledge_repository
    strategies,            \* the MonetizationStrategy objects alive, in construction order
    constructed,           \* the argument tuples they were constructed from (history)
    pc,                    \* statement about to run, "idle" between calls
    call,                  \* the public call in progress or last finished
    proc,                  \* locals of DataProcessor.process
    gen,                   \* locals of generate_strategies
    outcome,               \* what the public call gave its caller
    trace                  \* event log of the call

refs == <<data_cleaner, data_processor, market_analyzer, knowledge_repository>>
heap == <<strategies, constructed>>
vars == <<data_cleaner, data_processor, market_analyzer, knowledge_repository,
          strategies, constructed, pc, call, proc, gen, outcome, trace>>

----------------------------------------------------------------------------
(* Bounds *)

MaxStrategies == 2

----------------------------------------------------------------------------
(* Python values *)

None == [tag |-> "None"]
Unbound == [tag |-> "unbound"]
Dict(items) == [tag |-> "dict", items |-> items]
List(elems) == [tag |-> "list", elems |-> elems]
Exc(type, msg) == [tag |-> "exception", type |-> type, msg |-> msg]

\* str(e) of an exception built from one message argument
ExcStr(e) == e.msg

\* Mappings handed to process / generate_strategies / optimize_strategy.
\* Numbers are in tenths (15 is 1.5).
Mappings == { Dict(<< >>), Dict(<< <<"revenue", 15>> >>) }

\* Failures a collaborator may raise
Failures ==
    { Exc("ValueError", "bad data"), Exc("RuntimeError", "service unavailable") }

Return(v) == [kind |-> "return", value |-> v]
Raise(e) == [kind |-> "raise", exc |-> e]
Pending == [kind |-> "pending"]

\* What an invocation of an external collaborator returning a mapping can do
MappingOutcomes == { Return(m) : m \in Mappings } \cup { Raise(e) : e \in Failures }
\* What KnowledgeRepository.save can do
SaveOutcomes == { Return(None) } \cup { Raise(e) : e \in Failures }

\* Collaborator instances
Cleaners == { "DataCleaner@1" }
Processors == { "DataProcessor@1" }
Analyzers == { "MarketAnalyzer@1", "MarketAnalyzer@2" }
Repositories == { "KnowledgeRepository@1", "KnowledgeRepository@2" }

----------------------------------------------------------------------------
(* MonetizationStrategy *)

Names == { "freemium" }
Descriptions == { "tiered pricing" }
MetricsValues == { << >>, << <<"arpu", 15>> >> }
RecommendationValues == { << "raise price" >> }
Scores == { -5, 5, 15 }     \* tenths: -0.5, 0.5, 1.5

StrategyArgs ==
    Names \X Descriptions \X MetricsValues \X RecommendationValues \X Scores

\* Mutant: a constructor that clamps confidence_score into [0, 1]
MonetizationStrategy_clamped(name, description, metrics, recommendations, confidence_score) ==
    [tag |-> "MonetizationStrategy",
     name |-> name,
     description |-> description,
     metrics |-> metrics,
     recommendations |-> recommendations,
     confidence_score |-> IF confidence_score < 0 THEN 0
                          ELSE IF confidence_score > 10 THEN 10
                          ELSE confidence_score]

\* The generated __init__ of the dataclass: stores the five arguments as given
MonetizationStrategy(name, description, metrics, recommendations, confidence_score) ==
    [tag |-> "MonetizationStrategy",
     name |-> name,
     description |-> description,
     metrics |-> metrics,
     recommendations |-> recommendations,
     confidence_score |-> confidence_score]

\* repr of a str without quotes or escapes
StrRepr(s) == "'" \o s \o "'"

\* repr of a float given in tenths
FloatRepr(t) ==
    LET a == IF t < 0 THEN -t ELSE t
    IN (IF t < 0 THEN "-" ELSE "") \o ToString(a \div 10) \o "." \o ToString(a % 10)

RECURSIVE ItemsRepr(_)
ItemsRepr(items) ==
    IF items = << >> THEN ""
    ELSE LET h == Head(items)
         IN StrRepr(h[1]) \o ": " \o FloatRepr(h[2])
            \o (IF Len(items) > 1 THEN ", " ELSE "") \o ItemsRepr(Tail(items))

\* repr of a Dict[str, float]
DictRepr(items) == "{" \o ItemsRepr(items) \o "}"

RECURSIVE ElemsRepr(_)
ElemsRepr(elems) ==
    IF elems = << >> THEN ""
    ELSE StrRepr(Head(elems))
         \o (IF Len(elems) > 1 THEN ", " ELSE "") \o ElemsRepr(Tail(elems))

\* repr of a List[str]
ListRepr(elems) == "[" \o ElemsRepr(elems) \o "]"

\* str(strategy): the generated __repr__ of the dataclass
StrategyStr(s) ==
    "MonetizationStrategy(name=" \o StrRepr(s.name)
    \o ", description=" \o StrRepr(s.description)
    \o ", metrics=" \o DictRepr(s.metrics)
    \o ", recommendations=" \o ListRepr(s.recommendations)
    \o ", confidence_score=" \o FloatRepr(s.confidence_score) \o ")"

\* The category label save_strategy passes
StrategyCategory == "monetization_strategies"

----------------------------------------------------------------------------
(* Placeholders *)

\* DataProcessor._transform: `pass`
_transform(cleaned_data) == None

\* Mutant: an _identify_inefficiencies that finds nothing and returns []
_identify_inefficiencies_empty(processed_business_data, processed_market_data) ==
    List(<< >>)

\* MonetizationStrategyGenerator._identify_inefficiencies: `pass`
_identify_inefficiencies(processed_business_data, processed_market_data) == None

\* MonetizationStrategyGenerator._create_strategy: `pass`
_create_strategy(inefficiency_pattern) == None

\* What `for inefficiency in inefficiencies` raises on a value that is no iterable
NotIterable(v) == Exc("TypeError", "'NoneType' object is not iterable")

----------------------------------------------------------------------------
(* Frames *)

NoCall == [op |-> "none"]
NoProc == [caller |-> "none"]
NoGen == [active |-> FALSE]

ProcFrame(caller, data) ==
    [caller |-> caller, data |-> data, cleaned_data |-> Unbound,
     processed_data |-> Unbound, e |-> Unbound]

GenFrame(business_data, market_trends) ==
    [active |-> TRUE, business_data |-> business_data, market_trends |-> market_trends,
     processed_business_data |-> Unbound, processed_market_data |-> Unbound,
     inefficiencies |-> Unbound, e |-> Unbound]

Init ==
    /\ data_cleaner \in Cleaners
    /\ data_processor \in Processors
    /\ market_analyzer \in Analyzers
    /\ knowledge_repository \in Repositories
    /\ strategies = << >>
    /\ constructed = << >>
    /\ pc = "idle"
    /\ call = NoCall
    /\ proc = NoProc
    /\ gen = NoGen
    /\ outcome = Pending
    /\ trace = << >>

----------------------------------------------------------------------------
(* Events *)

CallEvent(ev, on, arg, out) == [ev |-> ev, on |-> on, arg |-> arg, out |-> out]
SaveEvent(on, value, category, out) ==
    [ev |-> "save", on |-> on, value |-> value, category |-> category, out |-> out]
ErrorEvent(logger, msg) == [ev |-> "error", logger |-> logger, msg |-> msg]
ReturnEvent(fn, value) == [ev |-> "return", fn |-> fn, value |-> value]
RaiseEvent(fn, e) == [ev |-> "raise", fn |-> fn, exc |-> e]

\* logging.getLogger(__name__) of each module
ProcessorLogger == "data_processor"
GeneratorLogger == "monetization_strategy_generator"

----------------------------------------------------------------------------
(* The caller *)

\* MonetizationStrategy(name, description, metrics, recommendations, confidence_score)
Construct(a) ==
    /\ pc = "idle"
    /\ Len(strategies) < MaxStrategies
    /\ strategies' = Append(strategies, MonetizationStrategy(a[1], a[2], a[3], a[4], a[5]))
    /\ constructed' = Append(constructed, a)
    /\ UNCHANGED <<refs, pc, call, proc, gen, outcome, trace>>

\* data_processor.process(data), called directly
CallProcess(data) ==
    /\ pc = "idle"
    /\ call' = [op |-> "process", data |-> data]
    /\ proc' = ProcFrame("caller", data)
    /\ gen' = NoGen
    /\ outcome' = Pending
    /\ trace' = << >>
    /\ pc' = "process:41"
    /\ UNCHANGED <<refs, heap>>

\* generator.generate_strategies(business_data, market_trends)
CallGenerate(business_data, market_trends) ==
    /\ pc = "idle"
    /\ call' = [op |-> "generate_strategies", business_data |-> business_data,
                market_trends |-> market_trends]
    /\ proc' = NoProc
    /\ gen' = GenFrame(business_data, market_trends)
    /\ outcome' = Pending
    /\ trace' = << >>
    /\ pc' = "generate_strategies:63"
    /\ UNCHANGED <<refs, heap>>

\* generator.optimize_strategy(strategies[i], feedback)
CallOptimize(i, feedback) ==
    /\ pc = "idle"
    /\ call' = [op |-> "optimize_strategy", strategy |-> i, feedback |-> feedback]
    /\ proc' = NoProc
    /\ gen' = NoGen
    /\ outcome' = Pending
    /\ trace' = << >>
    /\ pc' = "optimize_strategy:125"
    /\ UNCHANGED <<refs, heap>>

\* generator.save_strategy(strategies[i])
CallSave(i) ==
    /\ pc = "idle"
    /\ call' = [op |-> "save_strategy", strategy |-> i]
    /\ proc' = NoProc
    /\ gen' = NoGen
    /\ outcome' = Pending
    /\ trace' = << >>
    /\ pc' = "save_strategy:134"
    /\ UNCHANGED <<refs, heap>>

----------------------------------------------------------------------------
(* DataProcessor.process *)

\* How process hands control back: to its direct caller, or into
\* generate_strategies at line 63 (normal return) / line 78 (exception)
ProcessReturns(value) ==
    /\ trace' = Append(trace, ReturnEvent("process", value))
    /\ IF proc.caller = "caller"
       THEN /\ outcome' = Return(value)
            /\ pc' = "idle"
            /\ gen' = gen
       ELSE /\ gen' = [gen EXCEPT !.processed_business_data = value]
            /\ pc' = "generate_strategies:64"
            /\ outcome' = outcome

ProcessRaises(e) ==
    /\ trace' = Append(trace, RaiseEvent("process", e))
    /\ IF proc.caller = "caller"
       THEN /\ outcome' = Raise(e)
            /\ pc' = "idle"
            /\ gen' = gen
       ELSE /\ gen' = [gen EXCEPT !.e = e]
            /\ pc' = "generate_strategies:79"
            /\ outcome' = outcome

\* Mutant: process builds a new cleaner on every call
process_clean_rebind ==
    /\ pc = "process:41"
    /\ data_cleaner' = "DataCleaner@2"
    /\ \E out \in MappingOutcomes :
          /\ trace' = Append(trace, CallEvent("clean", data_cleaner', proc.data, out))
          /\ IF out.kind = "return"
             THEN /\ proc' = [proc EXCEPT !.cleaned_data = out.value]
                  /\ pc' = "process:44"
             ELSE /\ proc' = [proc EXCEPT !.e = out.exc]
                  /\ pc' = "process:49"
    /\ UNCHANGED <<data_processor, market_analyzer, knowledge_repository,
                   heap, call, gen, outcome>>

\* line 41: cleaned_data = self.data_cleaner.clean(data)
process_clean ==
    /\ pc = "process:41"
    /\ \E out \in MappingOutcomes :
          /\ trace' = Append(trace, CallEvent("clean", data_cleaner, proc.data, out))
          /\ IF out.kind = "return"
             THEN /\ proc' = [proc EXCEPT !.cleaned_data = out.value]
                  /\ pc' = "process:44"
             ELSE /\ proc' = [proc EXCEPT !.e = out.exc]
                  /\ pc' = "process:49"
    /\ UNCHANGED <<refs, heap, call, gen, outcome>>

\* Mutant: _transform is handed the raw data instead of the cleaned data
process_transform_raw ==
    /\ pc = "process:44"
    /\ LET r == _transform(proc.data)
       IN /\ trace' = Append(trace,
                 CallEvent("_transform", data_processor, proc.data, Return(r)))
          /\ proc' = [proc EXCEPT !.processed_data = r]
    /\ pc' = "process:46"
    /\ UNCHANGED <<refs, heap, call, gen, outcome>>

\* line 44: processed_data = self._transform(cleaned_data)
process_transform ==
    /\ pc = "process:44"
    /\ LET r == _transform(proc.cleaned_data)
       IN /\ trace' = Append(trace,
                 CallEvent("_transform", data_processor, proc.cleaned_data, Return(r)))
          /\ proc' = [proc EXCEPT !.processed_data = r]
    /\ pc' = "process:46"
    /\ UNCHANGED <<refs, heap, call, gen, outcome>>

\* line 46: return processed_data
process_return ==
    /\ pc = "process:46"
    /\ ProcessReturns(proc.processed_data)
    /\ UNCHANGED <<refs, heap, call, proc>>

\* lines 48-49: except Exception as e: self.logger.error(...)
process_except ==
    /\ pc = "process:49"
    /\ trace' = Append(trace,
           ErrorEvent(ProcessorLogger, "Data processing failed: " \o ExcStr(proc.e)))
    /\ pc' = "process:50"
    /\ UNCHANGED <<refs, heap, call, proc, gen, outcome>>

\* Mutant: the handler raises a new exception wrapping the message
process_raise_wrapped ==
    /\ pc = "process:50"
    /\ ProcessRaises(Exc("RuntimeError", "Data processing failed: " \o ExcStr(proc.e)))
    /\ UNCHANGED <<refs, heap, call, proc>>

\* line 50: raise
process_raise ==
    /\ pc = "process:50"
    /\ ProcessRaises(proc.e)
    /\ UNCHANGED <<refs, heap, call, proc>>

----------------------------------------------------------------------------
(* MonetizationStrategyGenerator.generate_strategies *)

\* Mutant: the market trends are analysed first, then the business data processed
generate_process_after_analyze ==
    /\ pc = "generate_strategies:63"
    /\ \E out \in MappingOutcomes :
          /\ trace' = Append(trace,
                 CallEvent("analyze", market_analyzer, gen.market_trends, out))
          /\ IF out.kind = "return"
             THEN /\ gen' = [gen EXCEPT !.processed_market_data = out.value]
                  /\ proc' = ProcFrame("generate_strategies", gen.business_data)
                  /\ pc' = "process:41"
             ELSE /\ gen' = [gen EXCEPT !.e = out.exc]
                  /\ proc' = proc
                  /\ pc' = "generate_strategies:79"
    /\ UNCHANGED <<refs, heap, call, outcome>>

\* line 63: processed_business_data = self.data_processor.process(business_data)
generate_process ==
    /\ pc = "generate_strategies:63"
    /\ proc' = ProcFrame("generate_strategies", gen.business_data)
    /\ pc' = "process:41"
    /\ UNCHANGED <<refs, heap, call, gen, outcome, trace>>

\* Mutant: a failure of analyze is swallowed and the analysis taken as None
generate_analyze_swallow ==
    /\ pc = "generate_strategies:64"
    /\ \E out \in MappingOutcomes :
          /\ trace' = Append(trace,
                 CallEvent("analyze", market_analyzer, gen.market_trends, out))
          /\ gen' = [gen EXCEPT !.processed_market_data =
                        IF out.kind = "return" THEN out.value ELSE None]
          /\ pc' = "generate_strategies:67"
    /\ UNCHANGED <<refs, heap, call, proc, outcome>>

\* line 64: processed_market_data = self.market_analyzer.analyze(market_trends)
generate_analyze ==
    /\ pc = "generate_strategies:64"
    /\ \E out \in MappingOutcomes :
          /\ trace' = Append(trace,
                 CallEvent("analyze", market_analyzer, gen.market_trends, out))
          /\ IF out.kind = "return"
             THEN /\ gen' = [gen EXCEPT !.processed_market_data = out.value]
                  /\ pc' = "generate_strategies:67"
             ELSE /\ gen' = [gen EXCEPT !.e = out.exc]
                  /\ pc' = "generate_strategies:79"
    /\ UNCHANGED <<refs, heap, call, proc, outcome>>

\* lines 67-68: inefficiencies = self._identify_inefficiencies(...)
generate_identify ==
    /\ pc = "generate_strategies:67"
    /\ LET r == _identify_inefficiencies(gen.processed_business_data,
                                         gen.processed_market_data)
       IN /\ trace' = Append(trace,
                 CallEvent("_identify_inefficiencies", "self",
                           <<gen.processed_business_data, gen.processed_market_data>>,
                           Return(r)))
          /\ gen' = [gen EXCEPT !.inefficiencies = r]
    /\ pc' = "generate_strategies:71"
    /\ UNCHANGED <<refs, heap, call, proc, outcome>>

\* The events of `strategy = self._create_strategy(inefficiency)`, one per element
RECURSIVE CreateEvents(_)
CreateEvents(elems) ==
    IF elems = << >> THEN << >>
    ELSE <<CallEvent("_create_strategy", "self", Head(elems),
                     Return(_create_strategy(Head(elems))))>>
         \o CreateEvents(Tail(elems))

\* The list the loop of lines 71-74 accumulates
RECURSIVE CreatedStrategies(_)
CreatedStrategies(elems) ==
    IF elems = << >> THEN << >>
    ELSE <<_create_strategy(Head(elems))>> \o CreatedStrategies(Tail(elems))

\* lines 71-76: strategies = []; for inefficiency in inefficiencies: ...; return strategies
generate_build ==
    /\ pc = "generate_strategies:71"
    /\ IF gen.inefficiencies.tag = "list"
       THEN LET result == List(CreatedStrategies(gen.inefficiencies.elems))
            IN /\ trace' = trace \o CreateEvents(gen.inefficiencies.elems)
                              \o <<ReturnEvent("generate_strategies", result)>>
               /\ outcome' = Return(result)
               /\ pc' = "idle"
               /\ gen' = gen
       ELSE /\ gen' = [gen EXCEPT !.e = NotIterable(gen.inefficiencies)]
            /\ pc' = "generate_strategies:79"
            /\ UNCHANGED <<outcome, trace>>
    /\ UNCHANGED <<refs, heap, call, proc>>

\* Mutant: the handler of generate_strategies re-raises without logging
generate_except_silent ==
    /\ pc = "generate_strategies:79"
    /\ pc' = "generate_strategies:80"
    /\ UNCHANGED <<refs, heap, call, proc, gen, outcome, trace>>

\* lines 78-79: except Exception as e: self.logger.error(...)
generate_except ==
    /\ pc = "generate_strategies:79"
    /\ trace' = Append(trace,
           ErrorEvent(GeneratorLogger, "Error generating strategies: " \o ExcStr(gen.e)))
    /\ pc' = "generate_strategies:80"
    /\ UNCHANGED <<refs, heap, call, proc, gen, outcome>>

\* line 80: raise
generate_raise ==
    /\ pc = "generate_strategies:80"
    /\ trace' = Append(trace, RaiseEvent("generate_strategies", gen.e))
    /\ outcome' = Raise(gen.e)
    /\ pc' = "idle"
    /\ UNCHANGED <<refs, heap, call, proc, gen>>

----------------------------------------------------------------------------
(* optimize_strategy, save_strategy *)

\* line 125: pass
optimize_strategy ==
    /\ pc = "optimize_strategy:125"
    /\ trace' = Append(trace, ReturnEvent("optimize_strategy", None))
    /\ outcome' = Return(None)
    /\ pc' = "idle"
    /\ UNCHANGED <<refs, heap, call, proc, gen>>

\* Mutant: a failed save is attempted a second time
save_strategy_retry ==
    /\ pc = "save_strategy:134"
    /\ \E first \in SaveOutcomes, out \in SaveOutcomes :
          LET value == StrategyStr(strategies[call.strategy])
              attempts ==
                  IF first.kind = "return"
                  THEN << SaveEvent(knowledge_repository, value, StrategyCategory, first) >>
                  ELSE << SaveEvent(knowledge_repository, value, StrategyCategory, first),
                          SaveEvent(knowledge_repository, value, StrategyCategory, out) >>
              last == attempts[Len(attempts)].out
          IN /\ trace' = trace \o attempts \o
                    << IF last.kind = "return"
                       THEN ReturnEvent("save_strategy", None)
                       ELSE RaiseEvent("save_strategy", last.exc) >>
             /\ outcome' = IF last.kind = "return" THEN Return(None) ELSE last
    /\ pc' = "idle"
    /\ UNCHANGED <<refs, heap, call, proc, gen>>

\* line 134: self.knowledge_repository.save(str(strategy), "monetization_strategies")
save_strategy ==
    /\ pc = "save_strategy:134"
    /\ \E out \in SaveOutcomes :
          /\ trace' = trace \o
                 << SaveEvent(knowledge_repository, StrategyStr(strategies[call.strategy]),
                              StrategyCategory, out),
                    IF out.kind = "return"
                    THEN ReturnEvent("save_strategy", None)
                    ELSE RaiseEvent("save_strategy", out.exc) >>
          /\ outcome' = IF out.kind = "return" THEN Return(None) ELSE out
    /\ pc' = "idle"
    /\ UNCHANGED <<refs, heap, call, proc, gen>>

----------------------------------------------------------------------------

Next ==
    \/ \E a \in StrategyArgs : Construct(a)
    \/ \E data \in Mappings : CallProcess(data)
    \/ \E business_data \in Mappings, market_trends \in Mappings :
          CallGenerate(business_data, market_trends)
    \/ \E i \in 1..Len(strategies), feedback \in Mappings : CallOptimize(i, feedback)
    \/ \E i \in 1..Len(strategies) : CallSave(i)
    \/ process_clean
    \/ process_transform
    \/ process_return
    \/ process_except
    \/ process_raise
    \/ generate_process
    \/ generate_analyze
    \/ generate_identify
    \/ generate_build
    \/ generate_except
    \/ generate_raise
    \/ optimize_strategy
    \/ save_strategy

Spec == Init /\ [][Next]_vars

----------------------------------------------------------------------------
(* Reading the trace *)

Idx == 1..Len(trace)
IsCall(i, ev) == trace[i].ev = ev
Calls(ev) == { i \in Idx : trace[i].ev = ev }
ProcessReturned(i) == trace[i].ev = "return" /\ trace[i].fn = "process"
ProcessRaised(i) == trace[i].ev = "raise" /\ trace[i].fn = "process"
Errors == SelectSeq(trace, LAMBDA x : x.ev = "error")

\* The argument the process call in the trace was given
ProcessInput == IF call.op = "process" THEN call.data ELSE call.business_data

Finished(op) == pc = "idle" /\ call.op = op

\* Inside process's except handler: the failure is caught, not yet re-raised
InProcessHandler == pc \in { "process:49", "process:50" }

----------------------------------------------------------------------------
(* Claims *)

\* C1: when clean and _transform both succeed, process(data) has invoked clean
\* exactly once, with data itself, then _transform exactly once on the value
\* clean returned, and returns exactly what _transform returned (None with the
\* placeholder); nothing was logged at error severity.
C1_ProcessSuccess ==
    \A i \in Idx :
        ProcessReturned(i) =>
            /\ i = 3
            /\ trace[1] = CallEvent("clean", data_cleaner, ProcessInput, trace[1].out)
            /\ trace[1].out.kind = "return"
            /\ trace[2] = CallEvent("_transform", data_processor,
                                    trace[1].out.value, trace[2].out)
            /\ trace[i].value = trace[2].out.value
            /\ trace[i].value = None
            /\ \A j \in 1..i : trace[j].ev # "error"
            /\ Finished("process") => outcome = Return(trace[i].value)

\* C1 witness: a direct process call returned, and the cleaner had returned a
\* mapping different from the one it was given.
C1_Witness ==
    /\ Finished("process")
    /\ outcome.kind = "return"
    /\ trace[1].out.value # call.data

\* C2: when clean raises during process(data), exactly one error record is
\* logged before the call ends, the call ends by raising that very failure,
\* clean is invoked at most once and _transform not at all.
C2_ProcessFailure ==
    /\ Cardinality(Calls("clean")) <= 1
    /\ \A i \in Idx :
          (IsCall(i, "clean") /\ trace[i].out.kind = "raise") =>
              /\ i = 1
              /\ Calls("_transform") = {}
              /\ \A j \in Idx : ~ProcessReturned(j)
              /\ ~InProcessHandler =>
                    /\ Len(trace) >= 3
                    /\ trace[2] = ErrorEvent(ProcessorLogger,
                           "Data processing failed: " \o trace[1].out.exc.msg)
                    /\ trace[3] = RaiseEvent("process", trace[1].out.exc)
                    /\ { j \in Idx : trace[j].ev = "error"
                                       /\ trace[j].logger = ProcessorLogger } = {2}
              /\ Finished("process") => outcome = trace[1].out /\ Len(trace) = 3
    /\ \A i \in Idx : ProcessRaised(i) => trace[1].out.kind = "raise"

\* C2 witness: a direct process call ended by raising the cleaner's failure.
C2_Witness ==
    /\ Finished("process")
    /\ outcome.kind = "raise"
    /\ trace[1].ev = "clean"
    /\ outcome.exc = trace[1].out.exc

\* C3: _identify_inefficiencies is attempted only after process and analyze both
\* returned normally; if either raises, _identify_inefficiencies and
\* _create_strategy are never invoked, no list is returned and the same
\* exception reaches the caller.
C3_IdentifyAfterBoth ==
    /\ \A i \in Idx :
          IsCall(i, "_identify_inefficiencies") =>
              \E j \in 1..(i-1), k \in 1..(i-1) :
                  /\ j < k
                  /\ ProcessReturned(j)
                  /\ IsCall(k, "analyze") /\ trace[k].out.kind = "return"
    /\ \A i \in Idx :
          (ProcessRaised(i) \/ (IsCall(i, "analyze") /\ trace[i].out.kind = "raise")) =>
              /\ Calls("_identify_inefficiencies") = {}
              /\ Calls("_create_strategy") = {}
              /\ Finished("generate_strategies") =>
                    outcome = Raise(IF ProcessRaised(i) THEN trace[i].exc
                                    ELSE trace[i].out.exc)

\* C3 witness: generate_strategies ended after analyze raised.
C3_Witness ==
    /\ Finished("generate_strategies")
    /\ \E i \in Idx : IsCall(i, "analyze") /\ trace[i].out.kind = "raise"
                      /\ outcome = Raise(trace[i].out.exc)

\* C4: when process and analyze both succeed, generate_strategies returns a
\* list with exactly one strategy per identified inefficiency, in order, each
\* the result of _create_strategy on it.
C4_ReturnsOnePerInefficiency ==
    ( /\ Finished("generate_strategies")
      /\ \E j \in Idx : ProcessReturned(j)
      /\ \E k \in Idx : IsCall(k, "analyze") /\ trace[k].out.kind = "return" )
    => /\ outcome.kind = "return"
       /\ outcome.value.tag = "list"
       /\ gen.inefficiencies.tag = "list"
       /\ Len(outcome.value.elems) = Len(gen.inefficiencies.elems)
       /\ \A n \in 1..Len(outcome.value.elems) :
             outcome.value.elems[n] = _create_strategy(gen.inefficiencies.elems[n])

\* C5 as stated: every failure that ends a public operation (process,
\* generate_strategies, save_strategy) was logged at error severity, with its
\* message, before the operation ended.
C5_EveryFailureLogged ==
    (pc = "idle" /\ outcome.kind = "raise") =>
        \E i \in Idx : /\ trace[i].ev = "error"
                       /\ i < Len(trace)

\* C5 amended: a failure that ends process or generate_strategies was logged
\* at error severity with its message by that operation right before it was
\* re-raised unchanged; a failure of the repository's save ends save_strategy
\* unchanged and unlogged.
C5_FailureLoggedExceptSave ==
    (pc = "idle" /\ outcome.kind = "raise") =>
        LET n == Len(trace)
        IN /\ trace[n].ev = "raise"
           /\ trace[n].exc = outcome.exc
           /\ call.op \in { "process", "generate_strategies", "save_strategy" }
           /\ call.op = "process" =>
                 /\ trace[n].fn = "process"
                 /\ trace[n-1] = ErrorEvent(ProcessorLogger,
                        "Data processing failed: " \o outcome.exc.msg)
           /\ call.op = "generate_strategies" =>
                 /\ trace[n].fn = "generate_strategies"
                 /\ trace[n-1] = ErrorEvent(GeneratorLogger,
                        "Error generating strategies: " \o outcome.exc.msg)
           /\ call.op = "save_strategy" =>
                 /\ trace[n].fn = "save_strategy"
                 /\ Errors = << >>
                 /\ trace[n-1].ev = "save"
                 /\ trace[n-1].out = outcome

\* C5 witness: save_strategy ended with the repository's failure and no log record.
C5_Witness ==
    /\ Finished("save_strategy")
    /\ outcome \in { Raise(e) : e \in Failures }
    /\ Errors = << >>

\* The string form of the strategies over the modelled field values, as str() gives it
ExpectedStr(a) ==
    "MonetizationStrategy(name='freemium', description='tiered pricing', metrics="
    \o (IF a[3] = << >> THEN "{}" ELSE "{'arpu': 1.5}")
    \o ", recommendations=['raise price'], confidence_score="
    \o (CASE a[5] = -5 -> "-0.5" [] a[5] = 5 -> "0.5" [] a[5] = 15 -> "1.5")
    \o ")"

\* C6: save_strategy(s) invokes the repository's save exactly once, with
\* str(s) and the category "monetization_strategies", invokes no other
\* collaborator, returns None, and when save raises lets that failure through
\* without a second attempt.
C6_SaveOnce ==
    Finished("save_strategy") =>
        /\ Len(trace) = 2
        /\ trace[1].ev = "save"
        /\ trace[1].on = knowledge_repository
        /\ trace[1].value = StrategyStr(strategies[call.strategy])
        /\ trace[1].value = ExpectedStr(constructed[call.strategy])
        /\ trace[1].category = "monetization_strategies"
        /\ outcome = trace[1].out
        /\ outcome.kind = "return" => outcome.value = None
        /\ trace[2] = IF outcome.kind = "return"
                      THEN ReturnEvent("save_strategy", None)
                      ELSE RaiseEvent("save_strategy", outcome.exc)

\* C6 witness: save_strategy returned after saving a strategy with metrics.
C6_Witness ==
    /\ Finished("save_strategy")
    /\ outcome = Return(None)
    /\ strategies[call.strategy].metrics # << >>

\* C7: no step of process, generate_strategies, optimize_strategy or
\* save_strategy reassigns data_cleaner, data_processor, market_analyzer or
\* knowledge_repository.
C7_ReferencesNeverReassigned ==
    [][ /\ data_cleaner' = data_cleaner
        /\ data_processor' = data_processor
        /\ market_analyzer' = market_analyzer
        /\ knowledge_repository' = knowledge_repository ]_vars

\* C7 witness: a generate_strategies call failed after using the cleaner and
\* the analyzer assigned at construction.
C7_Witness ==
    /\ Finished("generate_strategies")
    /\ outcome.kind = "raise"
    /\ \E i \in Idx : IsCall(i, "clean") /\ trace[i].on = data_cleaner
    /\ \E i \in Idx : IsCall(i, "analyze") /\ trace[i].on = market_analyzer

\* Every strategy reads back the five values it was constructed from
FieldsAsGiven ==
    /\ Len(strategies) = Len(constructed)
    /\ \A i \in 1..Len(strategies) :
          /\ strategies[i].name = constructed[i][1]
          /\ strategies[i].description = constructed[i][2]
          /\ strategies[i].metrics = constructed[i][3]
          /\ strategies[i].recommendations = constructed[i][4]
          /\ strategies[i].confidence_score = constructed[i][5]

\* No step changes a strategy that exists
ExistingUnchanged ==
    /\ Len(strategies') >= Len(strategies)
    /\ \A i \in 1..Len(strategies) : strategies'[i] = strategies[i]

\* C8: a constructed MonetizationStrategy reads back exactly the five values
\* given (a confidence_score outside [0,1] included), and no operation of the
\* generator changes a field of an existing strategy.
C8_RecordKeepsFields == []FieldsAsGiven /\ [][ExistingUnchanged]_vars

\* C8 witness: a strategy constructed with confidence_score 1.5 has been through
\* optimize_strategy and still reads 1.5.
C8_Witness ==
    /\ Finished("optimize_strategy")
    /\ outcome = Return(None)
    /\ constructed[call.strategy][5] = 15
    /\ strategies[call.strategy].confidence_score = 15

\* C9: generate_strategies never returns normally; when process and analyze
\* both succeed the iteration over None raises, the generator logs that
\* failure once and re-raises it, and _create_strategy is never invoked.
C9_GenerateAlwaysRaises ==
    /\ call.op = "generate_strategies" => outcome.kind # "return"
    /\ Calls("_create_strategy") = {}
    /\ ( /\ Finished("generate_strategies")
         /\ \E k \in Idx : IsCall(k, "analyze") /\ trace[k].out.kind = "return" )
       => /\ outcome = Raise(Exc("TypeError", "'NoneType' object is not iterable"))
          /\ Errors = << ErrorEvent(GeneratorLogger,
                 "Error generating strategies: 'NoneType' object is not iterable") >>
          /\ trace[Len(trace) - 1].ev = "error"
          /\ trace[Len(trace)] = RaiseEvent("generate_strategies", outcome.exc)
          /\ \E m \in Idx : IsCall(m, "_identify_inefficiencies")
                            /\ trace[m].out = Return(None)

\* C9 witness: generate_strategies ended with the TypeError after process and
\* analyze had both returned.
C9_Witness ==
    /\ Finished("generate_strategies")
    /\ outcome.kind = "raise"
    /\ outcome.exc.type = "TypeError"
    /\ \E j \in Idx : ProcessReturned(j)

\* C10: in generate_strategies, analyze is invoked at most once and only after
\* process returned normally; when process raises, analyze is never invoked
\* and the failure is logged twice, by DataProcessor.process and then by
\* generate_strategies, before it reaches the caller.
C10_ProcessBeforeAnalyze ==
    /\ Cardinality(Calls("analyze")) <= 1
    /\ \A k \in Idx :
          IsCall(k, "analyze") =>
              /\ \E j \in 1..(k-1) : ProcessReturned(j)
              /\ \A j \in Idx : IsCall(j, "clean") => j < k
    /\ \A i \in Idx :
          (ProcessRaised(i) /\ call.op = "generate_strategies") =>
              /\ Calls("analyze") = {}
              /\ Finished("generate_strategies") =>
                    /\ outcome = Raise(trace[i].exc)
                    /\ Errors =
                         << ErrorEvent(ProcessorLogger,
                                "Data processing failed: " \o trace[i].exc.msg),
                            ErrorEvent(GeneratorLogger,
                                "Error generating strategies: " \o trace[i].exc.msg) >>
                    /\ trace[Len(trace)] = RaiseEvent("generate_strategies", trace[i].exc)
                    /\ trace[Len(trace) - 1].ev = "error"

\* C10 witness: generate_strategies ended after process raised, with two error records.
C10_Witness ==
    /\ Finished("generate_strategies")
    /\ \E i \in Idx : ProcessRaised(i)
    /\ Len(Errors) = 2

====
